---- MODULE Spec2Model ----
(***************************************************************************)
(* A model of dataset.persistence.table.Table: a dynamic-schema accessor   *)
(* over one relational table.  Handlers are translated from                *)
(* src/dataset/persistence/table.py; the engine is modelled by the table   *)
(* contents (rows), the live column set (colTypes) and the index-creation  *)
(* requests it has received.                                               *)
(***************************************************************************)
EXTENDS Integers, Sequences, FiniteSets, TLC

(* ------------------------------ bounds -------------------------------- *)

\* Rows (and ids) of the table when any call of the API may be made.
MaxRows == 1
\* Rows of the table under insert, update, delete and count alone.
MaxDataRows == 2
\* Rows of the table under a series of upserts.
MaxUpsertRows == 2
\* Rows of the table a find() scans, and the largest _limit, _offset and
\* _step given to it.
MaxScanRows == 3
MaxLimit == 3
MaxOffset == 1
MaxStep == 2
\* Callers running at once.
MaxThreads == 2

(* --------------------------- value universe --------------------------- *)

\* Python's None / SQL NULL.  Scalar values are written as literals.
None == "None"
IntLiterals == {"1", "2"}
Values == {None} \cup IntLiterals

\* Columns a caller may name in a record, a filter or a key list.  The
\* table's own "id" column exists from construction and is assigned by the
\* engine.
UserCols == {"k", "v"}
ColumnTypes == {"Integer", "Text"}

\* dict literals: finite maps from column names
EmptyDict == [c \in {} |-> None]
Dicts == UNION {[S -> Values] : S \in SUBSET UserCols}
Records == Dicts \ {EmptyDict}
Filters == Dicts
\* the records and filters over None and "1" alone
FewRecords == {d \in Records : \A c \in DOMAIN d : d[c] \in {None, "1"}}
FewFilters == {d \in Filters : \A c \in DOMAIN d : d[c] \in {None, "1"}}
TypeMaps == {EmptyDict, [c \in {"v"} |-> "Text"]}
KeyLists == {<<"k">>, <<"k", "v">>}

Range(s) == {s[i] : i \in DOMAIN s}

VARIABLES
    colTypes,   \* self.table.columns: column name -> column type
    rows,       \* the table's contents at the engine: records [id, data]
    indexes,    \* self.indexes: index name -> handle or None
    idxCreates, \* index-creation requests the engine has received, per name
    idxReturned,\* per column list, the names computed and results returned by
                \* the create_index calls made without a name
    last,       \* the most recent call: what it was given and what it gave back
    scan,       \* the generator made by the latest find()
    upKeys,     \* the key list a series of upserts shares
    latest,     \* per key tuple, the record of the latest completed upsert and
                \* whether the key tuple has been upserted more than once
    lock,       \* self.database.lock: the callers holding it
    threads,    \* per concurrent caller, the call it is in and where
    tables,     \* self.database.tables: the table names registered
    engineTables, \* the tables that exist at the engine
    ddlDone     \* per column, the DDL sent by the create_column steps of
                \* concurrent callers that the engine has carried out

vars == <<colTypes, rows, indexes, idxCreates, idxReturned, last, scan, upKeys, latest,
         lock, threads, tables, engineTables, ddlDone>>

TableName == "t"

(* ----------------------- column materialization ----------------------- *)

\* dataset.persistence.util.guess_type: integers get an integer column,
\* anything else (None included) a text column.
GuessType(sample) == IF sample \in IntLiterals THEN "Integer" ELSE "Text"

\* Table.columns
Columns(cols) == DOMAIN cols

ColumnCreateNowhere(cols, name, type) == cols

\* col.create(self.table, connection=self.database.engine): the engine adds
\* the column and the table's column set shows it.
ColumnCreate(cols, name, type) == (name :> type) @@ cols

CreateColumnAlways(cols, name, type, bad) ==
    IF name \in bad THEN [cols |-> cols, raised |-> TRUE, ddl |-> 1]
    ELSE [cols |-> ColumnCreate(cols, name, type), raised |-> FALSE, ddl |-> 1]

CreateColumnQuiet(cols, name, type, bad) ==
    IF name \in DOMAIN cols \/ name \in bad
      THEN [cols |-> cols, raised |-> FALSE, ddl |-> 0]
      ELSE [cols |-> ColumnCreate(cols, name, type), raised |-> FALSE, ddl |-> 1]

\* Table.create_column by a caller that nobody interleaves with: under the
\* lock, the DDL is sent only when the column is missing.  The engine rejects
\* the DDL of the columns in `bad`, which raises.  The result is the column
\* set reached, whether the call raised, and the DDL statements sent.
CreateColumnStep(cols, name, type, bad) ==
    IF name \in DOMAIN cols THEN [cols |-> cols, raised |-> FALSE, ddl |-> 0]
    ELSE IF name \in bad THEN [cols |-> cols, raised |-> TRUE, ddl |-> 1]
    ELSE [cols |-> ColumnCreate(cols, name, type), raised |-> FALSE, ddl |-> 1]

\* the columns _ensure_columns finds missing
MissingColumns(cols, row) == DOMAIN row \ DOMAIN cols

\* the type _ensure_columns picks for a missing column
EnsureType(row, types, column) ==
    IF column \in DOMAIN types THEN types[column] ELSE GuessType(row[column])

\* Table._ensure_columns: one create_column per missing column, in the set's
\* iteration order; a create_column that raises ends the loop.
RECURSIVE EnsureLoop(_, _, _, _, _, _)
EnsureLoop(cols, todo, row, types, bad, sent) ==
    IF todo = {} THEN [cols |-> cols, raised |-> FALSE, ddl |-> sent]
    ELSE LET column == CHOOSE c \in todo : TRUE
             made == CreateColumnStep(cols, column, EnsureType(row, types, column), bad)
         IN  IF made.raised
               THEN [cols |-> made.cols, raised |-> TRUE, ddl |-> sent + made.ddl]
               ELSE EnsureLoop(made.cols, todo \ {column}, row, types, bad,
                               sent + made.ddl)

EnsureColumns(cols, row, types, bad) ==
    EnsureLoop(cols, MissingColumns(cols, row), row, types, bad, 0)

(* ------------------------------ clauses ------------------------------- *)

ArgsToClauseOne(args) ==
    IF DOMAIN args = {} THEN {}
    ELSE LET c == CHOOSE x \in DOMAIN args : TRUE IN {<<c, args[c]>>}

\* Table._args_to_clause, after its _ensure_columns: the conjunction of
\* column == value over the items of args ("== None" renders IS NULL).
ArgsToClause(args) == {<<c, args[c]>> : c \in DOMAIN args}

Matches(r, clause) == \A p \in clause : r.data[p[1]] = p[2]

\* the key clause of update: [(u, row.get(u)) for u in keys], as a dict
KeyClause(row, keys) ==
    [u \in Range(keys) |-> IF u \in DOMAIN row THEN row[u] ELSE None]

(* --------------------------- engine statements ------------------------ *)

\* the id the engine gives the next row: one more than the largest in use
NewId(rs) ==
    IF rs = {} THEN 1
    ELSE (CHOOSE i \in {r.id : r \in rs} : \A r \in rs : r.id <= i) + 1

EngineInsertUnlessKeyed(rs, row) ==
    IF \E r \in rs : \A c \in DOMAIN row \cap {"k"} : r.data[c] = row[c]
      THEN rs
      ELSE rs \cup {[id |-> NewId(rs),
                     data |-> [c \in UserCols |->
                                 IF c \in DOMAIN row THEN row[c] ELSE None]]}

\* INSERT of one row: the engine assigns the id, absent columns are NULL.
EngineInsert(rs, row) ==
    rs \cup {[id |-> NewId(rs),
              data |-> [c \in UserCols |-> IF c \in DOMAIN row THEN row[c] ELSE None]]}

\* UPDATE ... SET row WHERE clause
EngineUpdate(rs, clause, row) ==
    {IF Matches(r, clause)
       THEN [r EXCEPT !.data = [c \in UserCols |->
                                  IF c \in DOMAIN row THEN row[c] ELSE r.data[c]]]
       ELSE r : r \in rs}

\* rp.rowcount of that UPDATE
RowCount(rs, clause) == Cardinality({r \in rs : Matches(r, clause)})

\* DELETE ... WHERE clause
EngineDelete(rs, clause) == {r \in rs : ~Matches(r, clause)}

(* ------------------------------ handlers ------------------------------ *)

\* What a call leaves behind: the table state it reached (cols, rows,
\* indexes, idxCreates) and what the caller saw (ret, raised), with the
\* statements it sent to the engine (ddl: column creations; stmts: all) and
\* the answers of the create_index calls without a name made in it (ix:
\* column list, name computed, result).
State(cols, rs, ixs, reqs) ==
    [cols |-> cols, rows |-> rs, indexes |-> ixs, idxCreates |-> reqs]

NoneIdx == <<>>

Outcome(s, ret, raised, ddl, stmts) ==
    [cols |-> s.cols, rows |-> s.rows, indexes |-> s.indexes,
     idxCreates |-> s.idxCreates,
     ret |-> ret, raised |-> raised, ddl |-> ddl, stmts |-> stmts,
     idx |-> NoneIdx, n |-> 0, tuples |-> {}, found |-> {}, ix |-> {}]

StateOf(o) == State(o.cols, o.rows, o.indexes, o.idxCreates)

AffectedByMany(rowcount) == rowcount > 1

\* rp.rowcount > 0
Affected(rowcount) == rowcount > 0

\* Table.insert
InsertCall(s, row, ensure, types, bad) ==
    LET e == IF ensure THEN EnsureColumns(s.cols, row, types, bad)
             ELSE [cols |-> s.cols, raised |-> FALSE, ddl |-> 0]
        s1 == [s EXCEPT !.cols = e.cols]
    IN  IF e.raised THEN Outcome(s1, "raise", TRUE, e.ddl, e.ddl)
        ELSE Outcome([s1 EXCEPT !.rows = EngineInsert(s.rows, row)],
                     "None", FALSE, e.ddl, e.ddl + 1)

NoKeysNever(keys) == FALSE

\* not len(keys)
NoKeys(keys) == Len(keys) = 0

\* Table.update
UpdateCall(s, row, keys, ensure, types, bad) ==
    IF NoKeys(keys) THEN Outcome(s, "False", FALSE, 0, 0)
    ELSE
    LET clause == KeyClause(row, keys)
        e == IF ensure THEN EnsureColumns(s.cols, row, types, bad)
             ELSE [cols |-> s.cols, raised |-> FALSE, ddl |-> 0]
        s1 == [s EXCEPT !.cols = e.cols]
    IN  IF e.raised THEN Outcome(s1, "raise", TRUE, e.ddl, e.ddl)
        ELSE
        LET f == EnsureColumns(s1.cols, clause, EmptyDict, bad)
            s2 == [s1 EXCEPT !.cols = f.cols]
            ddl == e.ddl + f.ddl
            filters == ArgsToClause(clause)
        IN  IF f.raised THEN Outcome(s2, "raise", TRUE, ddl, ddl)
            ELSE Outcome([s2 EXCEPT !.rows = EngineUpdate(s.rows, filters, row)],
                         IF Affected(RowCount(s.rows, filters)) THEN "True" ELSE "False",
                         FALSE, ddl, ddl + 1)

\* Table.delete
DeleteCall(s, filter, bad) ==
    LET e == EnsureColumns(s.cols, filter, EmptyDict, bad)
        s1 == [s EXCEPT !.cols = e.cols]
    IN  IF e.raised THEN Outcome(s1, "raise", TRUE, e.ddl, e.ddl)
        ELSE Outcome([s1 EXCEPT !.rows = EngineDelete(s.rows, ArgsToClause(filter))],
                     "None", FALSE, e.ddl, e.ddl + 1)

\* '||'.join(columns)
RECURSIVE Join(_)
Join(columns) ==
    IF Len(columns) = 0 THEN ""
    ELSE IF Len(columns) = 1 THEN columns[1]
    ELSE columns[1] \o "||" \o Join(Tail(columns))

\* 'ix_%s_%s' % (self.table.name, abs(hash('||'.join(columns)))): the hash
\* is a fixed function of the joined string, written h(...) here.
IndexName(columns) == "ix_" \o TableName \o "_h(" \o Join(columns) \o ")"

CachedNever(ixs, nm) == FALSE

CachedHandle(ixs, nm) == nm \in DOMAIN ixs /\ ixs[nm] # NoneIdx

\* name in self.indexes
Cached(ixs, nm) == nm \in DOMAIN ixs

\* Table.create_index.  engineOk: whether the engine accepts the CREATE INDEX.
\* A handle is the Index object built by one call: its name, its columns and
\* the ordinal of the engine request that made it.
CreateIndexCall(s, columns, name, engineOk) ==
    LET nm == IF name = None THEN IndexName(columns) ELSE name
        answer(o, idx) ==
            [o EXCEPT !.idx = idx,
                      !.ix = IF name = None THEN {<<columns, nm, idx>>} ELSE {}]
    IN  IF Cached(s.indexes, nm)
          THEN answer(Outcome(s, "idx", FALSE, 0, 0), s.indexes[nm])
        ELSE IF \E c \in Range(columns) : c \notin Columns(s.cols)
          THEN answer(Outcome([s EXCEPT !.indexes = (nm :> NoneIdx) @@ s.indexes],
                              "idx", FALSE, 0, 0), NoneIdx)
        ELSE
          LET sent == IF nm \in DOMAIN s.idxCreates THEN s.idxCreates[nm] ELSE 0
              idx == IF engineOk THEN <<nm, Join(columns), sent + 1>> ELSE NoneIdx
          IN  answer(Outcome([s EXCEPT !.indexes = (nm :> idx) @@ s.indexes,
                                       !.idxCreates = (nm :> sent + 1) @@ s.idxCreates],
                             "idx", FALSE, 0, 1), idx)

\* Table.upsert
UpsertCall(s, row, keys, ensure, types, bad, engineOk) ==
    LET i == IF ensure THEN CreateIndexCall(s, keys, None, engineOk)
             ELSE Outcome(s, "idx", FALSE, 0, 0)
        u == UpdateCall(StateOf(i), row, keys, ensure, types, bad)
        ins == InsertCall(StateOf(u), row, ensure, types, bad)
        o == IF u.raised
               THEN Outcome(StateOf(u), "raise", TRUE, u.ddl, i.stmts + u.stmts)
             ELSE IF u.ret = "True"
               THEN Outcome(StateOf(u), "None", FALSE, u.ddl, i.stmts + u.stmts)
             ELSE Outcome(StateOf(ins), ins.ret, ins.raised, u.ddl + ins.ddl,
                          i.stmts + u.stmts + ins.stmts)
    IN  [o EXCEPT !.ix = i.ix]

\* Table.create_column called directly
CreateColumnCall(s, name, type, bad) ==
    LET made == CreateColumnStep(s.cols, name, type, bad)
    IN  Outcome([s EXCEPT !.cols = made.cols],
                IF made.raised THEN "raise" ELSE "None", made.raised,
                made.ddl, made.ddl)

\* Table._ensure_columns called on its own
EnsureColumnsCall(s, row, types, bad) ==
    LET e == EnsureColumns(s.cols, row, types, bad)
    IN  Outcome([s EXCEPT !.cols = e.cols],
                IF e.raised THEN "raise" ELSE "None", e.raised, e.ddl, e.ddl)

\* Table.__len__
CountCall(s) ==
    [Outcome(s, "n", FALSE, 0, 1) EXCEPT !.n = Cardinality(s.rows)]

UnknownRequested(cols, columns, filter) ==
    \E c \in Range(columns) : c \notin Columns(cols)

\* the KeyError of distinct's lookups self.table.c[c] and self.table.c[col]
UnknownColumn(cols, columns, filter) ==
    \E c \in Range(columns) \cup DOMAIN filter : c \notin Columns(cols)

\* Table.distinct: a column of `columns` or of `filter` that the table lacks
\* is a KeyError, answered with []; otherwise one SELECT DISTINCT.
DistinctCall(s, columns, filter) ==
    IF UnknownColumn(s.cols, columns, filter)
      THEN Outcome(s, "[]", FALSE, 0, 0)
      ELSE [Outcome(s, "tuples", FALSE, 0, 1) EXCEPT
              !.tuples = {[j \in DOMAIN columns |-> r.data[columns[j]]] :
                            r \in {q \in s.rows : Matches(q, ArgsToClause(filter))}}]

(* ------------------------------- find --------------------------------- *)

\* _limit=None
NoLimit == <<>>

Min(a, b) == IF a <= b THEN a ELSE b

\* ORDER BY id ASC
RECURSIVE SortAsc(_)
SortAsc(rs) ==
    IF rs = {} THEN <<>>
    ELSE LET m == CHOOSE r \in rs : \A q \in rs : r.id <= q.id
         IN  <<m>> \o SortAsc(rs \ {m})

Reverse(sq) == [j \in 1..Len(sq) |-> sq[Len(sq) + 1 - j]]

\* Table._args_to_order_by for 'id' and '-id'
OrderBy(rs, desc) == IF desc THEN Reverse(SortAsc(rs)) ELSE SortAsc(rs)

\* list(self.database.query(self.table.select(whereclause, limit, offset, order_by)))
Select(rs, clause, desc, qlimit, qoffset) ==
    LET ordered == OrderBy({r \in rs : Matches(r, clause)}, desc)
    IN  SubSeq(ordered, qoffset + 1, Min(Len(ordered), qoffset + qlimit))

QOffsetByOne(sc, i) == sc.offset + i

QOffsetFixed(sc, i) == sc.offset

QLimitWhole(sc, i) ==
    IF sc.limit # NoLimit THEN Min(sc.limit[1], sc.step) ELSE sc.step

\* qoffset and qlimit of the i-th turn of find's loop
QOffset(sc, i) == sc.offset + (sc.step * i)

QLimit(sc, i) ==
    IF sc.limit # NoLimit THEN Min(sc.limit[1] - (sc.step * i), sc.step) ELSE sc.step

\* A generator made by find(): nothing of its body has run.
NewScan(limit, offset, step, desc, filter) ==
    [state |-> "created", limit |-> limit, offset |-> offset, step |-> step,
     desc |-> desc, filter |-> filter, i |-> 0, buffer |-> <<>>,
     yielded |-> <<>>, queries |-> <<>>, modified |-> FALSE]

NoScan == [NewScan(NoLimit, 0, 1, FALSE, EmptyDict) EXCEPT !.state = "none"]

\* The i-th turn of the loop of find: stop when qlimit <= 0, else run the
\* page query; stop on an empty page, else yield its first row and keep the
\* rest for the next calls.
ScanTurn(sc, rs, i) ==
    IF QLimit(sc, i) <= 0 THEN [sc EXCEPT !.state = "done", !.i = i]
    ELSE LET page == Select(rs, ArgsToClause(sc.filter), sc.desc,
                            QLimit(sc, i), QOffset(sc, i))
             asked == Append(sc.queries, <<QOffset(sc, i), QLimit(sc, i)>>)
         IN  IF Len(page) = 0
               THEN [sc EXCEPT !.state = "done", !.i = i, !.queries = asked]
               ELSE [sc EXCEPT !.state = "running", !.i = i, !.queries = asked,
                               !.yielded = Append(sc.yielded, page[1]),
                               !.buffer = Tail(page)]

ScanNextEager(sc, cols, rs, bad) ==
    [scan |-> ScanTurn(sc, rs, IF sc.state = "created" THEN 0 ELSE sc.i + 1),
     cols |-> cols, ddl |-> 0]

\* One next() on the generator.  The first runs the body up to the loop
\* (the filter's columns are ensured, which may raise); a later one takes the
\* next row of the page in hand, or moves to the next turn of the loop.
\* The result is the generator and the column set.
ScanNext(sc, cols, rs, bad) ==
    IF sc.state = "created" THEN
        LET e == EnsureColumns(cols, sc.filter, EmptyDict, bad)
        IN  IF e.raised
              THEN [scan |-> [sc EXCEPT !.state = "raised"], cols |-> e.cols, ddl |-> e.ddl]
              ELSE [scan |-> ScanTurn(sc, rs, 0), cols |-> e.cols, ddl |-> e.ddl]
    ELSE IF Len(sc.buffer) > 0 THEN
        [scan |-> [sc EXCEPT !.yielded = Append(sc.yielded, Head(sc.buffer)),
                             !.buffer = Tail(sc.buffer)],
         cols |-> cols, ddl |-> 0]
    ELSE [scan |-> ScanTurn(sc, rs, sc.i + 1), cols |-> cols, ddl |-> 0]

ScanOver(sc) == sc.state \in {"done", "raised", "closed"}

\* list(generator): next() until the generator ends
RECURSIVE Drain(_, _, _, _, _)
Drain(sc, cols, rs, bad, ddl) ==
    IF ScanOver(sc) THEN [scan |-> sc, cols |-> cols, ddl |-> ddl]
    ELSE LET nx == ScanNext(sc, cols, rs, bad)
         IN  Drain(nx.scan, nx.cols, rs, bad, ddl + nx.ddl)

\* find()'s _step default
DefaultStep == 5000

\* Table.find_one: list(self.find(_limit=1, **filter)), None when it is empty
FindOneCall(s, filter, bad) ==
    LET d == Drain(NewScan(<<1>>, 0, DefaultStep, FALSE, filter), s.cols, s.rows, bad, 0)
        n == Len(d.scan.queries)
    IN  IF d.scan.state = "raised"
          THEN Outcome([s EXCEPT !.cols = d.cols], "raise", TRUE, d.ddl, d.ddl)
          ELSE [Outcome([s EXCEPT !.cols = d.cols],
                        IF Len(d.scan.yielded) = 0 THEN "None" ELSE "row",
                        FALSE, d.ddl, d.ddl + n)
                EXCEPT !.found = IF Len(d.scan.yielded) = 0 THEN {}
                                 ELSE {d.scan.yielded[1]}]

(* ------------------------- the sequential caller ---------------------- *)

Threads == 1..MaxThreads

\* a caller outside any call
Idle == [pc |-> "idle", op |-> "none", arg |-> EmptyDict, cols |-> <<>>,
         nm |-> "", err |-> FALSE, sent |-> 0, todo |-> {}, types |-> EmptyDict]

Current == State(colTypes, rows, indexes, idxCreates)

NoCall ==
    [op |-> "none", names |-> {}, keys |-> <<>>, ret |-> "None",
     raised |-> FALSE, ddl |-> 0, stmts |-> 0, idx |-> NoneIdx, n |-> 0,
     grew |-> FALSE, wrote |-> FALSE, twice |-> FALSE]

\* The table takes the state the call reached and the call is recorded: the
\* column names of its record or filter, its key or column list (for
\* create_column, the type asked), and what it
\* gave back, whether it changed the column set (grew) or the rows (wrote),
\* and whether it is _ensure_columns called again with the column names of
\* the call before, which returned (twice).  A generator whose body has
\* started is marked when the rows change after its first next().
Apply(o, op, arg, keys) ==
    /\ colTypes' = o.cols
    /\ rows' = o.rows
    /\ indexes' = o.indexes
    /\ idxCreates' = o.idxCreates
    /\ idxReturned' =
          [cl \in DOMAIN idxReturned \cup {a[1] : a \in o.ix} |->
              (IF cl \in DOMAIN idxReturned THEN idxReturned[cl] ELSE {})
                \cup {<<a[2], a[3]>> : a \in {b \in o.ix : b[1] = cl}}]
    /\ last' = [op |-> op, names |-> DOMAIN arg, keys |-> keys, ret |-> o.ret,
                raised |-> o.raised, ddl |-> o.ddl, stmts |-> o.stmts,
                idx |-> o.idx, n |-> o.n,
                grew |-> o.cols # colTypes, wrote |-> o.rows # rows,
                twice |-> /\ op = "ensure_columns" /\ last.op = op
                          /\ last.names = DOMAIN arg /\ ~last.raised]
    /\ scan' = IF scan.state \notin {"none", "created"} /\ o.rows # rows
                 THEN [scan EXCEPT !.modified = TRUE] ELSE scan
    /\ UNCHANGED <<lock, threads, tables, engineTables, ddlDone>>

\* The caller passes ensure=False only for rows whose columns all exist: what
\* the engine does with an unknown column name is not this module's.
EnsureArgs(row) ==
    {<<TRUE, t>> : t \in TypeMaps}
      \cup (IF DOMAIN row \subseteq Columns(colTypes) THEN {<<FALSE, EmptyDict>>} ELSE {})

Init ==
    /\ colTypes = [c \in {"id"} |-> "Integer"]
    /\ rows = {}
    /\ indexes = EmptyDict
    /\ idxCreates = EmptyDict
    /\ idxReturned = EmptyDict
    /\ last = NoCall
    /\ scan = NoScan
    /\ upKeys = <<>>
    /\ latest = EmptyDict
    /\ lock = {}
    /\ threads = [t \in Threads |-> Idle]
    /\ tables = {TableName}
    /\ engineTables = {TableName}
    /\ ddlDone = EmptyDict

Insert(max, row, ensure, types, bad) ==
    LET o == InsertCall(Current, row, ensure, types, bad)
    IN  /\ \A r \in o.rows : r.id <= max
        /\ Apply(o, "insert", row, <<>>)

Update(row, keys, ensure, types, bad) ==
    Apply(UpdateCall(Current, row, keys, ensure, types, bad), "update", row, keys)

Upsert(max, row, keys, ensure, types, bad, engineOk) ==
    LET o == UpsertCall(Current, row, keys, ensure, types, bad, engineOk)
    IN  /\ \A r \in o.rows : r.id <= max
        /\ Apply(o, "upsert", row, keys)

Delete(filter, bad) ==
    Apply(DeleteCall(Current, filter, bad), "delete", filter, <<>>)

CreateColumn(name, type, bad) ==
    Apply(CreateColumnCall(Current, name, type, bad), "create_column",
          [c \in {name} |-> type], <<type>>)

CreateIndex(columns, name, engineOk) ==
    Apply(CreateIndexCall(Current, columns, name, engineOk), "create_index",
          EmptyDict, columns)

EnsureCols(row, types, bad) ==
    Apply(EnsureColumnsCall(Current, row, types, bad), "ensure_columns", row, <<>>)

Distinct(columns, filter) ==
    Apply(DistinctCall(Current, columns, filter), "distinct", filter, columns)

Count == Apply(CountCall(Current), "count", EmptyDict, <<>>)

FindOne(filter, bad) ==
    Apply(FindOneCall(Current, filter, bad), "find_one", filter, <<>>)

\* the column DDL the engine may reject in a call that names these columns
Rejects(names) == SUBSET (names \ Columns(colTypes))

Ghosts == <<upKeys, latest>>

(* One caller, any call of the API on a table of at most MaxRows rows. *)

AnyInsert ==
    /\ \E row \in FewRecords : \E ea \in EnsureArgs(row) : \E bad \in Rejects(DOMAIN row) :
          Insert(MaxRows, row, ea[1], ea[2], bad)
    /\ UNCHANGED Ghosts

AnyUpdate ==
    /\ \E row \in FewRecords, keys \in {<<>>, <<"k">>}, ensure \in BOOLEAN :
        \E bad \in Rejects(DOMAIN row \cup Range(keys)) :
          /\ <<ensure, EmptyDict>> \in EnsureArgs(row)
          /\ Update(row, keys, ensure, EmptyDict, bad)
    /\ UNCHANGED Ghosts

AnyUpsert ==
    /\ \E row \in FewRecords, engineOk \in BOOLEAN, ensure \in BOOLEAN :
        \E bad \in Rejects(DOMAIN row \cup {"k"}) :
          /\ <<ensure, EmptyDict>> \in EnsureArgs(row)
          /\ Upsert(MaxRows, row, <<"k">>, ensure, EmptyDict, bad, engineOk)
    /\ UNCHANGED Ghosts

AnyDelete ==
    /\ \E filter \in FewFilters : \E bad \in Rejects(DOMAIN filter) : Delete(filter, bad)
    /\ UNCHANGED Ghosts

AnyCreateColumn ==
    /\ \E name \in UserCols, type \in ColumnTypes : \E bad \in Rejects({name}) :
          CreateColumn(name, type, bad)
    /\ UNCHANGED Ghosts

AnyCreateIndex ==
    /\ \E columns \in KeyLists, engineOk \in BOOLEAN :
          CreateIndex(columns, None, engineOk)
    /\ UNCHANGED Ghosts

AnyEnsureCols ==
    /\ \E row \in FewRecords, types \in TypeMaps : \E bad \in Rejects(DOMAIN row) :
          EnsureCols(row, types, bad)
    /\ UNCHANGED Ghosts

AnyDistinct ==
    /\ \E columns \in KeyLists, filter \in {EmptyDict, [c \in {"v"} |-> "1"]} :
          Distinct(columns, filter)
    /\ UNCHANGED Ghosts

AnyCount == Count /\ UNCHANGED Ghosts

AnyFindOne ==
    /\ \E filter \in {EmptyDict, [c \in {"k"} |-> "1"]} :
        \E bad \in Rejects(DOMAIN filter) : FindOne(filter, bad)
    /\ UNCHANGED Ghosts

Next ==
    \/ AnyInsert
    \/ AnyUpdate
    \/ AnyUpsert
    \/ AnyDelete
    \/ AnyCreateColumn
    \/ AnyCreateIndex
    \/ AnyEnsureCols
    \/ AnyDistinct
    \/ AnyCount
    \/ AnyFindOne

Spec == Init /\ [][Next]_vars

(* One caller using insert, update, delete and count. *)

DataInsert ==
    /\ \E row \in Records : \E bad \in Rejects(DOMAIN row) :
          Insert(MaxDataRows, row, TRUE, EmptyDict, bad)
    /\ UNCHANGED Ghosts

DataUpdate ==
    /\ \E row \in Records, keys \in {<<"k">>} : \E bad \in Rejects(DOMAIN row \cup Range(keys)) :
          Update(row, keys, TRUE, EmptyDict, bad)
    /\ UNCHANGED Ghosts

DataDelete ==
    /\ \E filter \in Filters : \E bad \in Rejects(DOMAIN filter) : Delete(filter, bad)
    /\ UNCHANGED Ghosts

DataCount == Count /\ UNCHANGED Ghosts

NextData ==
    \/ DataInsert
    \/ DataUpdate
    \/ DataDelete
    \/ DataCount

SpecData == Init /\ [][NextData]_vars

(* One caller making a series of upserts that share their key list. *)

InitUpsert ==
    /\ colTypes = [c \in {"id"} |-> "Integer"]
    /\ rows = {}
    /\ indexes = EmptyDict
    /\ idxCreates = EmptyDict
    /\ idxReturned = EmptyDict
    /\ last = NoCall
    /\ scan = NoScan
    /\ upKeys \in KeyLists
    /\ latest = EmptyDict
    /\ lock = {}
    /\ threads = [t \in Threads |-> Idle]
    /\ tables = {TableName}
    /\ engineTables = {TableName}
    /\ ddlDone = EmptyDict

\* the key tuple of a record or of a row's data under a key list
KeyTuple(d, keys) == [j \in DOMAIN keys |-> d[keys[j]]]

SameKeyUpsert ==
    \E row \in {d \in Records : Range(upKeys) \subseteq DOMAIN d},
       engineOk \in BOOLEAN :
      \E ea \in EnsureArgs(row) : \E bad \in Rejects(DOMAIN row) :
        /\ Upsert(MaxUpsertRows, row, upKeys, ea[1], ea[2], bad, engineOk)
        /\ upKeys' = upKeys
        /\ latest' = IF last'.raised THEN latest
                     ELSE (KeyTuple(row, upKeys) :>
                             [rec |-> row, again |-> KeyTuple(row, upKeys) \in DOMAIN latest])
                          @@ latest

NextUpsert == SameKeyUpsert

SpecUpsert == InitUpsert /\ [][NextUpsert]_vars

(* One caller filling a table and scanning it with one find(). *)

ScanLimits == {NoLimit} \cup {<<n>> : n \in 0..MaxLimit}
ScanFilters == {EmptyDict, [c \in {"k"} |-> "1"]}

ScanInsert ==
    /\ \E row \in {[c \in {"k"} |-> "1"], [c \in {"k"} |-> "2"]} :
        \E bad \in Rejects(DOMAIN row) :
          Insert(MaxScanRows, row, TRUE, EmptyDict, bad)
    /\ UNCHANGED Ghosts

ScanDelete ==
    /\ \E filter \in ScanFilters : \E bad \in Rejects(DOMAIN filter) : Delete(filter, bad)
    /\ UNCHANGED Ghosts

\* find(_limit, _offset, _step, order_by, **filter): the generator is made
Find(limit, offset, step, desc, filter) ==
    /\ scan.state = "none"
    /\ scan' = NewScan(limit, offset, step, desc, filter)
    /\ UNCHANGED <<colTypes, rows, indexes, idxCreates, idxReturned, last>>
    /\ UNCHANGED <<lock, threads, tables, engineTables, ddlDone>>

\* the consumer asks the generator for its next row
NextRow(bad) ==
    /\ scan.state \in {"created", "running"}
    /\ LET nx == ScanNext(scan, colTypes, rows, bad)
       IN  /\ scan' = nx.scan
           /\ colTypes' = nx.cols
    /\ UNCHANGED <<rows, indexes, idxCreates, idxReturned, last>>
    /\ UNCHANGED <<lock, threads, tables, engineTables, ddlDone>>

\* the consumer drops the generator without asking for more
CloseScan ==
    /\ scan.state \in {"created", "running"}
    /\ scan' = [scan EXCEPT !.state = "closed"]
    /\ UNCHANGED <<colTypes, rows, indexes, idxCreates, idxReturned, last>>
    /\ UNCHANGED <<lock, threads, tables, engineTables, ddlDone>>

ScanFind ==
    /\ \E limit \in ScanLimits, offset \in 0..MaxOffset, step \in 1..MaxStep,
          desc \in BOOLEAN, filter \in ScanFilters :
          Find(limit, offset, step, desc, filter)
    /\ UNCHANGED Ghosts

ScanNextRow ==
    /\ \E bad \in Rejects(IF scan.state = "created" THEN DOMAIN scan.filter ELSE {}) :
          NextRow(bad)
    /\ UNCHANGED Ghosts

ScanClose == CloseScan /\ UNCHANGED Ghosts

NextFind ==
    \/ ScanInsert
    \/ ScanDelete
    \/ ScanFind
    \/ ScanNextRow
    \/ ScanClose

SpecFind == Init /\ [][NextFind]_vars

(* Callers running create_column, create_index and drop at once on one
   database.  Each step is one action; the engine works on a DDL statement
   between the step that sends it and the step that gets its answer. *)

Sequential == <<rows, last, scan, idxReturned, upKeys, latest>>

CanAcquireAlways(l, t) == TRUE

\* `with self.database.lock:` lets a caller in when nobody holds the lock
CanAcquire(l, t) == l = {}

At(t, pc) == threads[t].pc = pc

Goto(t, pc) == threads' = [threads EXCEPT ![t].pc = pc]

\* a caller starts create_column(name, type), create_index(columns) or drop()
\* on a table still registered
CallCreateColumn(t, name, type) ==
    /\ At(t, "idle") /\ TableName \in tables
    /\ threads' = [threads EXCEPT ![t] =
                     [Idle EXCEPT !.pc = "cc_lock", !.op = "create_column",
                                  !.arg = [c \in {name} |-> type]]]
    /\ UNCHANGED <<colTypes, indexes, idxCreates, lock, tables, engineTables, ddlDone>>

CallCreateIndex(t, columns, name) ==
    /\ At(t, "idle") /\ TableName \in tables
    /\ threads' = [threads EXCEPT ![t] =
                     [Idle EXCEPT !.pc = "ci_lock", !.op = "create_index",
                                  !.cols = columns,
                                  !.nm = IF name = None THEN "" ELSE name]]
    /\ UNCHANGED <<colTypes, indexes, idxCreates, lock, tables, engineTables, ddlDone>>

CallDrop(t) ==
    /\ At(t, "idle") /\ TableName \in tables
    /\ threads' = [threads EXCEPT ![t] = [Idle EXCEPT !.pc = "dr_lock", !.op = "drop"]]
    /\ UNCHANGED <<colTypes, indexes, idxCreates, lock, tables, engineTables, ddlDone>>

\* entering the with block
Acquire(t) ==
    /\ threads[t].pc \in {"cc_lock", "ci_lock", "dr_lock"}
    /\ CanAcquire(lock, t)
    /\ lock' = lock \cup {t}
    /\ Goto(t, CASE At(t, "cc_lock") -> "cc_check"
                 [] At(t, "ci_lock") -> "ci_name"
                 [] OTHER -> "dr_pop")
    /\ UNCHANGED <<colTypes, indexes, idxCreates, tables, engineTables, ddlDone>>

ColumnCheckSkipped(t) ==
    /\ At(t, "cc_check")
    /\ threads' = [threads EXCEPT ![t].pc = "cc_ddl", ![t].sent = @ + 1]
    /\ UNCHANGED <<colTypes, indexes, idxCreates, lock, tables, engineTables, ddlDone>>

\* create_column: if name not in self.table.columns.keys()
ColumnCheck(t) ==
    /\ At(t, "cc_check")
    /\ threads' = IF DOMAIN threads[t].arg \subseteq Columns(colTypes)
                    THEN [threads EXCEPT ![t].pc = "unlock"]
                    ELSE [threads EXCEPT ![t].pc = "cc_ddl", ![t].sent = @ + 1]
    /\ UNCHANGED <<colTypes, indexes, idxCreates, lock, tables, engineTables, ddlDone>>

ColumnDDLLeaks(t, engineOk) ==
    /\ At(t, "cc_ddl")
    /\ LET name == CHOOSE c \in DOMAIN threads[t].arg : TRUE
           done == IF name \in DOMAIN ddlDone THEN ddlDone[name] ELSE 0
       IN  /\ colTypes' = IF engineOk
                             THEN ColumnCreate(colTypes, name, threads[t].arg[name])
                             ELSE colTypes
           /\ ddlDone' = IF engineOk THEN (name :> done + 1) @@ ddlDone ELSE ddlDone
    /\ threads' = IF engineOk THEN [threads EXCEPT ![t].pc = "unlock"]
                    ELSE [threads EXCEPT ![t] = Idle]
    /\ UNCHANGED <<indexes, idxCreates, lock, tables, engineTables>>

\* create_column: col.create(...) returns, or raises when the engine rejects it
ColumnDDL(t, engineOk) ==
    /\ At(t, "cc_ddl")
    /\ LET name == CHOOSE c \in DOMAIN threads[t].arg : TRUE
           done == IF name \in DOMAIN ddlDone THEN ddlDone[name] ELSE 0
       IN  /\ colTypes' = IF engineOk
                             THEN ColumnCreate(colTypes, name, threads[t].arg[name])
                             ELSE colTypes
           /\ ddlDone' = IF engineOk THEN (name :> done + 1) @@ ddlDone ELSE ddlDone
    /\ threads' = [threads EXCEPT ![t].pc = "unlock", ![t].err = ~engineOk]
    /\ UNCHANGED <<indexes, idxCreates, lock, tables, engineTables>>

\* create_index up to the engine request: the name, the cache, the columns
IndexLookup(t) ==
    /\ At(t, "ci_name")
    /\ LET nm == IF threads[t].nm = "" THEN IndexName(threads[t].cols)
                 ELSE threads[t].nm
       IN  IF Cached(indexes, nm)
             THEN /\ threads' = [threads EXCEPT ![t].pc = "unlock", ![t].nm = nm]
                  /\ UNCHANGED <<indexes, idxCreates>>
           ELSE IF \E c \in Range(threads[t].cols) : c \notin Columns(colTypes)
             THEN /\ threads' = [threads EXCEPT ![t].pc = "unlock", ![t].nm = nm]
                  /\ indexes' = (nm :> NoneIdx) @@ indexes
                  /\ UNCHANGED idxCreates
           ELSE /\ threads' = [threads EXCEPT ![t].pc = "ci_ddl", ![t].nm = nm]
                /\ idxCreates' =
                     (nm :> (IF nm \in DOMAIN idxCreates THEN idxCreates[nm] ELSE 0) + 1)
                       @@ idxCreates
                /\ UNCHANGED indexes
    /\ UNCHANGED <<colTypes, lock, tables, engineTables, ddlDone>>

\* create_index: idx.create(...) returns or fails, and the result is cached
IndexDDL(t, engineOk) ==
    /\ At(t, "ci_ddl")
    /\ LET nm == threads[t].nm
       IN  indexes' = (nm :> IF engineOk
                               THEN <<nm, Join(threads[t].cols), idxCreates[nm]>>
                               ELSE NoneIdx) @@ indexes
    /\ Goto(t, "unlock")
    /\ UNCHANGED <<colTypes, idxCreates, lock, tables, engineTables, ddlDone>>

\* drop: self.database.tables.pop(self.table.name, None)
DropPop(t) ==
    /\ At(t, "dr_pop")
    /\ tables' = tables \ {TableName}
    /\ Goto(t, "dr_drop")
    /\ UNCHANGED <<colTypes, indexes, idxCreates, lock, engineTables, ddlDone>>

\* drop: self.table.drop(engine) names an `engine` that nothing defines:
\* evaluating the argument raises NameError and no statement is sent
DropTable(t) ==
    /\ At(t, "dr_drop")
    /\ threads' = [threads EXCEPT ![t].pc = "unlock", ![t].err = TRUE]
    /\ UNCHANGED <<colTypes, indexes, idxCreates, lock, tables, engineTables, ddlDone>>

\* leaving the with block, by return or by exception.  A create_column
\* called by _ensure_columns returns into its loop; an exception leaves the
\* loop too.
Release(t) ==
    /\ At(t, "unlock")
    /\ lock' = lock \ {t}
    /\ threads' = IF threads[t].op = "ensure_columns" /\ ~threads[t].err
                    THEN [threads EXCEPT ![t].pc = "en_next", ![t].arg = EmptyDict]
                    ELSE [threads EXCEPT ![t] = Idle]
    /\ UNCHANGED <<colTypes, indexes, idxCreates, tables, engineTables, ddlDone>>

ConcCallCreateColumn ==
    /\ \E t \in Threads, name \in UserCols, type \in ColumnTypes :
          CallCreateColumn(t, name, type)
    /\ UNCHANGED Sequential

ConcCallCreateIndex ==
    /\ \E t \in Threads, columns \in KeyLists : CallCreateIndex(t, columns, None)
    /\ UNCHANGED Sequential

ConcCallDrop == (\E t \in Threads : CallDrop(t)) /\ UNCHANGED Sequential

ConcAcquire == (\E t \in Threads : Acquire(t)) /\ UNCHANGED Sequential

ConcColumnCheck == (\E t \in Threads : ColumnCheck(t)) /\ UNCHANGED Sequential

ConcColumnDDL ==
    /\ \E t \in Threads, engineOk \in BOOLEAN : ColumnDDL(t, engineOk)
    /\ UNCHANGED Sequential

ConcIndexLookup == (\E t \in Threads : IndexLookup(t)) /\ UNCHANGED Sequential

ConcIndexDDL ==
    /\ \E t \in Threads, engineOk \in BOOLEAN : IndexDDL(t, engineOk)
    /\ UNCHANGED Sequential

ConcDropPop == (\E t \in Threads : DropPop(t)) /\ UNCHANGED Sequential

ConcDropTable == (\E t \in Threads : DropTable(t)) /\ UNCHANGED Sequential

ConcRelease == (\E t \in Threads : Release(t)) /\ UNCHANGED Sequential

NextConc ==
    \/ ConcCallCreateColumn
    \/ ConcCallCreateIndex
    \/ ConcCallDrop
    \/ ConcAcquire
    \/ ConcColumnCheck
    \/ ConcColumnDDL
    \/ ConcIndexLookup
    \/ ConcIndexDDL
    \/ ConcDropPop
    \/ ConcDropTable
    \/ ConcRelease

SpecConc == Init /\ [][NextConc]_vars

\* a step of caller t inside a with block: the caller is running, and the
\* engine answers the statement it was sent
BodyStep(t) ==
    /\ \/ ColumnCheck(t)
       \/ \E engineOk \in BOOLEAN : ColumnDDL(t, engineOk)
       \/ IndexLookup(t)
       \/ \E engineOk \in BOOLEAN : IndexDDL(t, engineOk)
       \/ DropPop(t)
       \/ DropTable(t)
       \/ Release(t)
    /\ UNCHANGED Sequential

\* Every caller inside a with block goes on, and a caller blocked on the lock
\* gets it if it is released again and again.
ConcFairness ==
    \A t \in Threads :
        /\ WF_vars(BodyStep(t))
        /\ SF_vars(Acquire(t) /\ UNCHANGED Sequential)

\* The same callers, all working on column k and on the index over it.
LockCallCreateColumn ==
    /\ \E t \in Threads : CallCreateColumn(t, "k", "Integer")
    /\ UNCHANGED Sequential

LockCallCreateIndex ==
    /\ \E t \in Threads : CallCreateIndex(t, <<"k">>, None)
    /\ UNCHANGED Sequential

NextLock ==
    \/ LockCallCreateColumn
    \/ LockCallCreateIndex
    \/ ConcCallDrop
    \/ ConcAcquire
    \/ ConcColumnCheck
    \/ ConcColumnDDL
    \/ ConcIndexLookup
    \/ ConcIndexDDL
    \/ ConcDropPop
    \/ ConcDropTable
    \/ ConcRelease

SpecLock == Init /\ [][NextLock]_vars /\ ConcFairness

(* Callers running _ensure_columns at once on one table. *)

\* a caller starts _ensure_columns(row, types); the type of each column of
\* the row is the one the loop would pick for it
CallEnsure(t, row, types) ==
    /\ At(t, "idle") /\ TableName \in tables
    /\ threads' = [threads EXCEPT ![t] =
                     [Idle EXCEPT !.pc = "en_read", !.op = "ensure_columns",
                                  !.types = [c \in DOMAIN row |->
                                                EnsureType(row, types, c)]]]
    /\ UNCHANGED <<colTypes, indexes, idxCreates, lock, tables, engineTables, ddlDone>>

\* set(row.keys()) - set(self.table.columns.keys()), evaluated once, before
\* the loop
EnsureRead(t) ==
    /\ At(t, "en_read")
    /\ threads' = [threads EXCEPT ![t].pc = "en_next",
                                  ![t].todo = MissingColumns(colTypes, threads[t].types)]
    /\ UNCHANGED <<colTypes, indexes, idxCreates, lock, tables, engineTables, ddlDone>>

\* the loop takes the next column of the set, in any order, and calls
\* create_column for it, or ends
EnsureNext(t) ==
    /\ At(t, "en_next")
    /\ IF threads[t].todo = {}
         THEN threads' = [threads EXCEPT ![t] = Idle]
         ELSE \E column \in threads[t].todo :
                threads' = [threads EXCEPT
                              ![t].pc = "cc_lock",
                              ![t].todo = @ \ {column},
                              ![t].arg = [c \in {column} |-> threads[t].types[c]]]
    /\ UNCHANGED <<colTypes, indexes, idxCreates, lock, tables, engineTables, ddlDone>>

\* the records the concurrent callers ensure: every column set, one value
EnsureRecords == {d \in Records : \A c \in DOMAIN d : d[c] = "1"}

ConcCallEnsure ==
    /\ \E t \in Threads, row \in EnsureRecords, types \in TypeMaps :
          CallEnsure(t, row, types)
    /\ UNCHANGED Sequential

ConcEnsureRead == (\E t \in Threads : EnsureRead(t)) /\ UNCHANGED Sequential

ConcEnsureNext == (\E t \in Threads : EnsureNext(t)) /\ UNCHANGED Sequential

NextEnsure ==
    \/ ConcCallEnsure
    \/ ConcEnsureRead
    \/ ConcEnsureNext
    \/ ConcAcquire
    \/ ConcColumnCheck
    \/ ConcColumnDDL
    \/ ConcRelease

SpecEnsure == Init /\ [][NextEnsure]_vars

(* Callers running upsert(row, ["k"]) at once on one table.  An upsert takes
   two steps: create_index and update, up to the return of update, and then
   the insert it makes when update returned False. *)

\* the records the concurrent callers upsert: one key value
RaceRecords ==
    {d \in Records : "k" \in DOMAIN d /\ d["k"] = "1" /\ \A c \in DOMAIN d : d[c] # None}

RaceKeys == <<"k">>

CallUpsert(t, row) ==
    /\ At(t, "idle") /\ TableName \in tables
    /\ threads' = [threads EXCEPT ![t] =
                     [Idle EXCEPT !.pc = "up_update", !.op = "upsert", !.arg = row]]
    /\ UNCHANGED <<colTypes, rows, indexes, idxCreates>>

\* upsert: self.create_index(keys), then self.update(row, keys, ...) returns
\* True, returns False or raises
UpsertUpdate(t, bad, engineOk) ==
    /\ At(t, "up_update")
    /\ LET i == CreateIndexCall(Current, RaceKeys, None, engineOk)
           u == UpdateCall(StateOf(i), threads[t].arg, RaceKeys, TRUE, EmptyDict, bad)
       IN  /\ colTypes' = u.cols
           /\ rows' = u.rows
           /\ indexes' = u.indexes
           /\ idxCreates' = u.idxCreates
           /\ threads' = IF ~u.raised /\ u.ret = "False"
                            THEN [threads EXCEPT ![t].pc = "up_insert"]
                            ELSE [threads EXCEPT ![t] = Idle]

\* upsert: self.insert(row, ...) after update returned False
UpsertInsert(t, bad) ==
    /\ At(t, "up_insert")
    /\ LET ins == InsertCall(Current, threads[t].arg, TRUE, EmptyDict, bad)
       IN  /\ colTypes' = ins.cols
           /\ rows' = ins.rows
           /\ UNCHANGED <<indexes, idxCreates>>
    /\ threads' = [threads EXCEPT ![t] = Idle]

Untouched == <<last, scan, idxReturned, upKeys, latest, lock, tables, engineTables, ddlDone>>

RaceCallUpsert ==
    /\ \E t \in Threads, row \in RaceRecords : CallUpsert(t, row)
    /\ UNCHANGED Untouched

RaceUpsertUpdate ==
    /\ \E t \in Threads, engineOk \in BOOLEAN :
        \E bad \in Rejects(DOMAIN threads[t].arg) : UpsertUpdate(t, bad, engineOk)
    /\ UNCHANGED Untouched

RaceUpsertInsert ==
    /\ \E t \in Threads : \E bad \in Rejects(DOMAIN threads[t].arg) : UpsertInsert(t, bad)
    /\ UNCHANGED Untouched

NextRace ==
    \/ RaceCallUpsert
    \/ RaceUpsertUpdate
    \/ RaceUpsertInsert

SpecRace == Init /\ [][NextRace]_vars

(* ------------------------------- claims ------------------------------- *)

\* C1: after any series of upserts from an empty table that share a
\* non-empty key list and whose records hold every key column, the table
\* holds exactly one row per key tuple upserted, no other row, and that row
\* carries the values of the latest completed upsert of its key tuple.
C1_UpsertOneRowPerKey ==
    /\ \A r \in rows : KeyTuple(r.data, upKeys) \in DOMAIN latest
    /\ \A kt \in DOMAIN latest :
        LET held == {r \in rows : KeyTuple(r.data, upKeys) = kt}
        IN  /\ Cardinality(held) = 1
            /\ \A r \in held : \A c \in DOMAIN latest[kt].rec :
                  r.data[c] = latest[kt].rec[c]

\* two key tuples are held, one of them upserted again with another value
C1_Witness ==
    /\ upKeys = <<"k">>
    /\ Cardinality(rows) = 2
    /\ last.op = "upsert" /\ ~last.raised
    /\ \E kt \in DOMAIN latest :
          /\ latest[kt].again
          /\ "v" \in DOMAIN latest[kt].rec
          /\ latest[kt].rec["v"] = "2"
          /\ \E r \in rows : r.data["k"] = kt[1] /\ r.data["v"] = "2"

\* the rows matching a filter, in the order of find's order_by
Ordered(filter, desc) ==
    OrderBy({r \in rows : \A c \in DOMAIN filter : r.data[c] = filter[c]}, desc)

\* the scan has ended by itself and the rows have not changed since it began
ScanComplete == scan.state = "done" /\ ~scan.modified

\* C2: on a table not modified during the scan, find() with no filter and no
\* limit yields every row exactly once, in ascending id order, and ends,
\* whatever the window size.
C2_ScanYieldsAllRows ==
    (/\ ScanComplete
     /\ scan.limit = NoLimit /\ scan.filter = EmptyDict
     /\ scan.offset = 0 /\ ~scan.desc)
    => scan.yielded = SortAsc(rows)

\* three rows scanned in windows of two: a full page, a short page, an empty one
C2_Witness ==
    /\ ScanComplete
    /\ scan.limit = NoLimit /\ scan.filter = EmptyDict
    /\ scan.offset = 0 /\ ~scan.desc
    /\ scan.step = 2
    /\ Cardinality(rows) = 3
    /\ Len(scan.yielded) = 3
    /\ Len(scan.queries) = 3

\* C3: find(limit=L, offset=O, windowSize=S) on an unmodified table of N
\* matching rows yields min(L, max(0, N - O)) records, the matching rows at
\* positions O .. O+count-1 of the ordered result.
C3_LimitOffset ==
    (ScanComplete /\ scan.limit # NoLimit)
    => LET all == Ordered(scan.filter, scan.desc)
           rest == IF Len(all) - scan.offset > 0 THEN Len(all) - scan.offset ELSE 0
           cnt == Min(scan.limit[1], rest)
       IN  /\ Len(scan.yielded) = cnt
           /\ Len(scan.yielded) <= scan.limit[1]
           /\ \A j \in 1..cnt : scan.yielded[j] = all[scan.offset + j]

\* a limit of two over three rows, fetched in windows of one
C3_Witness ==
    /\ ScanComplete
    /\ scan.limit = <<2>> /\ scan.step = 1 /\ scan.offset = 0
    /\ scan.filter = EmptyDict
    /\ Cardinality(rows) = 3
    /\ Len(scan.yielded) = 2

\* the rows a delete(filter) must leave: those that differ from the filter
\* on some filter column
Survivors(rs, filter) == {r \in rs : \E c \in DOMAIN filter : r.data[c] # filter[c]}

\* C4: a delete(filter) that returns removes exactly the rows equal to the
\* filter on every filter column and leaves the others as they were; with an
\* empty filter no row is left, and a count() made right after gives 0.
C4_DeleteExactly ==
    [][/\ (last'.op = "delete" /\ ~last'.raised) =>
            \A filter \in Filters :
              (/\ DOMAIN filter = last'.names
               /\ \E bad \in Rejects(DOMAIN filter) : Delete(filter, bad))
              => /\ rows' = Survivors(rows, filter)
                 /\ (filter = EmptyDict => rows' = {})
       /\ (/\ last.op = "delete" /\ last.names = {} /\ ~last.raised
           /\ last'.op = "count")
          => last'.n = 0
      ]_vars

\* a delete on two columns has removed row 1 and left row 2, which matches
\* the filter's columns only in part or not at all
C4_Witness ==
    /\ last.op = "delete" /\ last.names = {"k", "v"} /\ ~last.raised /\ last.wrote
    /\ \E r \in rows : r.id = 2 /\ r.data["k"] = "1" /\ r.data["v"] # None
    /\ Cardinality(rows) = 1

\* C5: update(record, []) returns False and changes nothing: no row, no
\* column (even for a record naming missing columns with ensure on), no
\* index entry, and no statement reaches the engine.
C5_EmptyKeysUpdate ==
    [][(last'.op = "update" /\ last'.keys = <<>>) =>
          /\ last'.ret = "False" /\ ~last'.raised
          /\ last'.stmts = 0 /\ last'.ddl = 0
          /\ rows' = rows /\ colTypes' = colTypes
          /\ indexes' = indexes /\ idxCreates' = idxCreates
      ]_vars

\* update of a record naming the missing column v, with no keys, on a table
\* that holds a row
C5_Witness ==
    /\ last.op = "update" /\ last.keys = <<>> /\ last.ret = "False"
    /\ "v" \in last.names /\ "v" \notin Columns(colTypes)
    /\ rows # {}

\* C6: distinct(columns, filter) naming a column the table lacks, among the
\* columns or in the filter, returns an empty result without raising, sends
\* no query and creates no column.
C6_DistinctUnknownColumn ==
    [][(/\ last'.op = "distinct"
        /\ \E c \in Range(last'.keys) \cup last'.names : c \notin Columns(colTypes))
       => /\ last'.ret = "[]" /\ ~last'.raised
          /\ last'.stmts = 0 /\ last'.ddl = 0
          /\ colTypes' = colTypes /\ rows' = rows
      ]_vars

\* distinct on an existing column filtered by a missing one, over a row
C6_Witness ==
    /\ last.op = "distinct" /\ last.ret = "[]"
    /\ last.keys = <<"k">> /\ last.names = {"v"}
    /\ "k" \in Columns(colTypes) /\ "v" \notin Columns(colTypes)
    /\ rows # {}

\* C7: _ensure_columns called again with the record of the call before,
\* which returned, does not raise, sends no column DDL and leaves the column
\* set as the first call left it.
C7_EnsureColumnsIdempotent ==
    (last.op = "ensure_columns" /\ last.twice)
    => ~last.raised /\ last.ddl = 0 /\ ~last.grew

\* the second of two calls for a record with both columns, now present
C7_Witness ==
    /\ last.op = "ensure_columns" /\ last.twice
    /\ last.names = {"k", "v"}
    /\ {"k", "v"} \subseteq Columns(colTypes)
    /\ last.ddl = 0

C10_ColumnsOnlyGrow ==
    [][\A c \in DOMAIN colTypes :
          c \in DOMAIN colTypes' /\ colTypes'[c] = colTypes[c]]_vars

\* create_column("v", Text) on a table whose v is an Integer column made for
\* an inserted "1": the column was left alone
C10_Witness ==
    /\ last.op = "create_column" /\ last.names = {"v"} /\ last.ddl = 0
    /\ last.keys = <<"Text">>
    /\ colTypes["v"] = "Integer"
    /\ \E r \in rows : r.data["v"] = "1"

\* the steps of create_column, create_index and drop inside the with block
InSchemaMutation(t) ==
    threads[t].pc \in {"cc_check", "cc_ddl", "ci_name", "ci_ddl",
                       "dr_pop", "dr_drop", "unlock"}

\* C9: a caller inside create_column, create_index or drop holds the
\* database lock alone, so at most one schema mutation is in progress.
C9_SchemaMutationsExclusive ==
    /\ \A t \in Threads : InSchemaMutation(t) => lock = {t}
    /\ \A t, u \in Threads : (InSchemaMutation(t) /\ InSchemaMutation(u)) => t = u

\* one caller's column DDL is at the engine while another waits to drop
C9_Witness ==
    /\ threads[1].pc = "cc_ddl"
    /\ threads[2].pc = "dr_lock"
    /\ lock = {1}

\* C11: a drop() whose body has ended has returned, the table's name is out
\* of the registry and the table is gone from the engine.
C11_DropDropsTable ==
    \A t \in Threads :
        (threads[t].op = "drop" /\ At(t, "unlock"))
        => /\ ~threads[t].err
           /\ TableName \notin tables
           /\ TableName \notin engineTables

\* C12: an update whose key list names a column the record lacks, and which
\* does not raise, returns False and leaves every row as it was.
C12_MissingKeyNoMatch ==
    [][(/\ last'.op = "update"
        /\ \E u \in Range(last'.keys) : u \notin last'.names
        /\ ~last'.raised)
       => last'.ret = "False" /\ rows' = rows
      ]_vars

\* C13: create_index over a column list naming a column the table lacks
\* fails: the call raises to its caller.
C13_UnknownColumnRaises ==
    [][(/\ last'.op = "create_index"
        /\ \E c \in Range(last'.keys) : c \notin Columns(colTypes))
       => last'.raised
      ]_vars

\* the index-creation requests the engine has received under a name
Requests(reqs, nm) == IF nm \in DOMAIN reqs THEN reqs[nm] ELSE 0

\* C14: a cache entry once recorded on the handle, a handle or None, stays
\* as it is through every later call and no further request is sent under
\* its name; a create_index call whose name has an entry returns that entry
\* and sends nothing, also when the entry is None and the columns exist now.
C14_CacheEntryKept ==
    [][/\ \A nm \in DOMAIN indexes :
            /\ nm \in DOMAIN indexes' /\ indexes'[nm] = indexes[nm]
            /\ Requests(idxCreates', nm) = Requests(idxCreates, nm)
       /\ (last'.op = "create_index" /\ IndexName(last'.keys) \in DOMAIN indexes)
          => /\ last'.idx = indexes[IndexName(last'.keys)]
             /\ last'.stmts = 0 /\ ~last'.raised
      ]_vars

\* create_index(["k"]) answered None without a request although k is a
\* column by now and holds a row's value: the entry dates from when k was
\* missing, and the engine never received a request for the index
C14_Witness ==
    /\ last.op = "create_index" /\ last.keys = <<"k">>
    /\ last.idx = NoneIdx /\ last.stmts = 0
    /\ "k" \in Columns(colTypes)
    /\ \E r \in rows : r.data["k"] = "1"
    /\ Requests(idxCreates, IndexName(<<"k">>)) = 0

\* C15: an insert or update in which the engine rejects the DDL of a missing
\* column raises to its caller, and an insert or update that raises has sent
\* no INSERT or UPDATE and leaves the rows as they were.
C15_ColumnFailurePropagates ==
    [][/\ (last'.op \in {"insert", "update"} /\ last'.raised)
          => rows' = rows /\ last'.stmts = last'.ddl
       /\ (last'.op = "insert" /\ ~last'.raised)
          => \A row \in {d \in FewRecords : DOMAIN d = last'.names} :
               \A bad \in Rejects(DOMAIN row) \ {{}}, types \in TypeMaps :
                  ~Insert(MaxRows, row, TRUE, types, bad)
       /\ (last'.op = "update" /\ last'.keys = <<"k">> /\ ~last'.raised)
          => \A row \in {d \in FewRecords : DOMAIN d = last'.names} :
               \A bad \in Rejects(DOMAIN row \cup {"k"}) \ {{}}, ensure \in BOOLEAN :
                  ~(/\ <<ensure, EmptyDict>> \in EnsureArgs(row)
                    /\ Update(row, <<"k">>, ensure, EmptyDict, bad))
      ]_vars

\* an insert naming a missing column into a table that holds a row: the
\* engine rejected the column's DDL, the insert raised and added nothing
C15_Witness ==
    /\ last.op = "insert" /\ last.raised
    /\ last.ddl = 1 /\ ~last.grew /\ ~last.wrote
    /\ \E c \in last.names : c \notin Columns(colTypes)
    /\ rows # {}

\* the number of column DDL the engine has carried out for a column
Done(c) == IF c \in DOMAIN ddlDone THEN ddlDone[c] ELSE 0

\* C16: with callers ensuring the same columns at once, a column DDL is at
\* the engine only for a column still missing, the engine carries out one
\* DDL per column created, and a create_column that finds its column present
\* under the lock sends nothing and does not fail.
C16_OneDDLPerColumn ==
    /\ \A c \in UserCols : Done(c) = IF c \in Columns(colTypes) THEN 1 ELSE 0
    /\ \A t \in Threads :
         /\ At(t, "cc_ddl") => DOMAIN threads[t].arg \cap Columns(colTypes) = {}
         /\ (At(t, "unlock") /\ ~threads[t].err)
              => DOMAIN threads[t].arg \subseteq Columns(colTypes)
         /\ (At(t, "unlock") /\ threads[t].sent = 0) => ~threads[t].err

\* two callers had both read k as missing; the engine carried out one DDL
\* for k, and caller 2, let in after it, found k present and sent nothing
C16_Witness ==
    /\ threads[2].op = "ensure_columns" /\ threads[2].pc = "unlock"
    /\ DOMAIN threads[2].types = {"k"} /\ DOMAIN threads[2].arg = {"k"}
    /\ threads[2].sent = 0 /\ ~threads[2].err
    /\ threads[1].op = "ensure_columns" /\ threads[1].pc = "en_next"
    /\ DOMAIN threads[1].types = {"k"} /\ threads[1].sent = 1
    /\ Done("k") = 1

\* C17: a SELECT is issued only by a next() that finds no fetched row left
\* to hand out, one SELECT at most per next(); a generator that was made but
\* never asked has issued none, and one the consumer has dropped issues no
\* more.
C17_ScanIsLazy ==
    [][/\ scan'.state = "created" => scan'.queries = <<>>
       /\ scan'.queries # scan.queries
          => /\ scan.state \in {"created", "running"}
             /\ scan.buffer = <<>>
             /\ Len(scan'.queries) = Len(scan.queries) + 1
             /\ \/ Len(scan'.yielded) = Len(scan.yielded) + 1
                \/ scan'.state = "done"
      ]_vars

\* of three rows scanned in windows of two the consumer took one and
\* stopped: one page was fetched, its second row was never asked for
C17_Witness ==
    /\ scan.state = "closed"
    /\ scan.step = 2 /\ scan.limit = NoLimit
    /\ Cardinality(rows) = 3 /\ ~scan.modified
    /\ Len(scan.yielded) = 1 /\ Len(scan.buffer) = 1
    /\ Len(scan.queries) = 1

\* the sum of the row limits of the first n queries
RECURSIVE LimitSum(_, _)
LimitSum(queries, n) == IF n = 0 THEN 0 ELSE queries[n][2] + LimitSum(queries, n - 1)

\* the queries of a scan, as <<offset, row limit>>, are those of the turns
\* 0, 1, 2, ... of the loop
QueriesInOrder(sc) ==
    /\ \A j \in 1..Len(sc.queries) :
         /\ sc.queries[j][1] = sc.offset + (j - 1) * sc.step
         /\ sc.queries[j][2] =
              (IF sc.limit = NoLimit THEN sc.step
               ELSE Min(sc.step, sc.limit[1] - (j - 1) * sc.step))
         /\ sc.queries[j][2] \in 1..sc.step
         /\ j > 1 => sc.queries[j - 1][1] < sc.queries[j][1]
    /\ sc.limit # NoLimit => LimitSum(sc.queries, Len(sc.queries)) <= sc.limit[1]

\* C18: the i-th page query of a scan has offset = offset + i*step and row
\* limit step, or min(step, limit - i*step) under a limit; offsets grow,
\* each row limit is within 1..step, the row limits sum to at most the
\* limit, and a page query that returns no row is the scan's last.
C18_PagesInOrder ==
    [][/\ QueriesInOrder(scan')
       /\ Len(scan'.queries) > Len(scan.queries)
          => LET q == scan'.queries[Len(scan'.queries)]
                 page == Select(rows, ArgsToClause(scan'.filter), scan'.desc, q[2], q[1])
             IN  Len(page) = 0 => scan'.state = "done"
       /\ scan.state = "done" => scan'.queries = scan.queries
      ]_vars

\* limit 3 from offset 1 in windows of two over three rows: the second
\* query asks for the one row left of the limit and gets none
C18_Witness ==
    /\ scan.state = "done" /\ ~scan.modified
    /\ scan.limit = <<3>> /\ scan.offset = 1 /\ scan.step = 2
    /\ scan.filter = EmptyDict
    /\ Cardinality(rows) = 3
    /\ scan.queries = << <<1, 2>>, <<3, 1>> >>
    /\ Len(scan.yielded) = 2

\* the rows holding the key value of a record
Keyed(rs, row) == {r \in rs : r.data["k"] = row["k"]}

\* C19: an upsert goes on to its insert exactly when its update found no row
\* with its key, and that insert, made with no lock held, adds a row
\* whatever rows have appeared since the update.
C19_UpsertNotAtomic ==
    [][\A t \in Threads :
         /\ (At(t, "up_update") /\ threads'[t].pc = "up_insert")
            => Keyed(rows, threads[t].arg) = {}
         /\ (At(t, "up_insert") /\ threads'[t].pc = "idle")
            => /\ lock = {}
               /\ Cardinality(rows') = Cardinality(rows) + 1
               /\ Cardinality(Keyed(rows', threads[t].arg))
                    = Cardinality(Keyed(rows, threads[t].arg)) + 1
      ]_vars

\* both callers' updates found no row with key "1" before either insert
\* ran: both inserted, and the table holds two rows with that key
C19_Witness ==
    /\ \A t \in Threads : At(t, "idle")
    /\ Cardinality({r \in rows : r.data["k"] = "1"}) = 2

\* caller t is blocked entering a with block
WaitsForLock(t) == threads[t].pc \in {"cc_lock", "ci_lock", "dr_lock"}

====
